---- MODULE Spec2Model ----
(***************************************************************************)
(* Model of the WhatsApp webhook ingestion and conversation-dispatch       *)
(* pipeline (Backend/src/routes/webhook.ts) together with the completion   *)
(* client (FlowiseService.processMessage) and the gateway client           *)
(* (EvolutionAPIService.sendMessage) it calls.                             *)
(*                                                                         *)
(* Strings are sequences of characters.  A long literal phrase of the      *)
(* source (a fallback phrase, a placeholder such as "[Sticker]") is one    *)
(* element of such a sequence; " " is the whitespace character.  An        *)
(* optional string (a JSON field that may be missing) is a record          *)
(* [present, v].                                                           *)
(*                                                                         *)
(* Every webhook request is a process.  One action is the code that runs   *)
(* between two suspension points (await) of the handler: the event loop    *)
(* runs it without interleaving.  The store is read or written at the      *)
(* step at which the awaited call returns.                                 *)
(***************************************************************************)
EXTENDS Integers, Sequences, FiniteSets, TLC

\* ------------------------------------------------------------------ bounds

\* Number of webhook requests that one behaviour handles (concurrently).
MaxRequests == 2

Reqs == 1..MaxRequests

\* ------------------------------------------------------------- strings

Txt(s) == [present |-> TRUE, v |-> s]
NoTxt == [present |-> FALSE, v |-> <<>>]

\* JavaScript truthiness of an optional string: present and not "".
Truthy(o) == o.present /\ o.v # <<>>

Digits == {"0", "1", "2", "3", "4", "5", "6", "7", "8", "9"}

IsWhitespace(c) == c = " "

RECURSIVE TrimStart(_)
TrimStart(s) ==
  IF s # <<>> /\ IsWhitespace(Head(s)) THEN TrimStart(Tail(s)) ELSE s

RECURSIVE TrimEnd(_)
TrimEnd(s) ==
  IF s # <<>> /\ IsWhitespace(s[Len(s)])
    THEN TrimEnd(SubSeq(s, 1, Len(s) - 1))
    ELSE s

\* String.prototype.trim
Trim(s) == TrimEnd(TrimStart(s))

StartsWith(s, p) == Len(s) >= Len(p) /\ SubSeq(s, 1, Len(p)) = p

\* Positions at which pat occurs in s.
Occurrences(s, pat) ==
  {i \in 1..(Len(s) - Len(pat) + 1) : SubSeq(s, i, i + Len(pat) - 1) = pat}

\* String.prototype.replace(pat, '') with a string pattern: the first
\* occurrence of pat is removed, the rest of s is kept.
RemoveFirst(s, pat) ==
  IF Occurrences(s, pat) = {}
    THEN s
    ELSE LET i == CHOOSE k \in Occurrences(s, pat) :
                    \A j \in Occurrences(s, pat) : k <= j
         IN SubSeq(s, 1, i - 1) \o SubSeq(s, i + Len(pat), Len(s))

\* phoneNumber.replace(/\D/g, ''): every non-digit is removed.
RECURSIVE StripNonDigits(_)
StripNonDigits(s) ==
  IF s = <<>> THEN <<>>
  ELSE IF Head(s) \in Digits
    THEN <<Head(s)>> \o StripNonDigits(Tail(s))
    ELSE StripNonDigits(Tail(s))

\* '@s.whatsapp.net'
WaSuffix ==
  <<"@", "s", ".", "w", "h", "a", "t", "s", "a", "p", "p", ".", "n", "e", "t">>

\* ------------------------------------------------- gateway client (send)

\* formatPhoneNumber without its last case: the country code is added only
\* to the numbers of 10 digits and to those of 11 digits that begin with 11.
formatPhoneNumberNoDefault(phoneNumber) ==
  LET formatted == StripNonDigits(phoneNumber)
  IN IF Len(formatted) = 11 /\ StartsWith(formatted, <<"1", "1">>)
       THEN <<"5", "5">> \o formatted
     ELSE IF Len(formatted) = 10
       THEN <<"5", "5", "1", "1">> \o formatted
     ELSE formatted

\* EvolutionAPIService.formatPhoneNumber
formatPhoneNumber(phoneNumber) ==
  LET formatted == StripNonDigits(phoneNumber)
  IN IF Len(formatted) = 11 /\ StartsWith(formatted, <<"1", "1">>)
       THEN <<"5", "5">> \o formatted
     ELSE IF Len(formatted) = 10
       THEN <<"5", "5", "1", "1">> \o formatted
     ELSE IF ~StartsWith(formatted, <<"5", "5">>) /\ Len(formatted) < 13
       THEN <<"5", "5">> \o formatted
     ELSE formatted

\* What axios.post to /message/sendText can end with: an HTTP status that
\* axios resolves (2xx) or a thrown error (non-2xx status, timeout, network).
GatewayOutcomes == {"200", "201", "204", "throw"}

\* EvolutionAPIService.sendMessage: its boolean result.  Every outcome,
\* a thrown error included, is turned into a return value.
sendMessageResult(outcome) == outcome \in {"200", "201"}

\* ---------------------------------------------- completion client

\* The four phrases of getFallbackResponse, each one symbol.
fallbackResponses ==
  << <<"Desculpe, estou com dificuldades tecnicas no momento.">>,
     <<"Ola! Tive um pequeno problema tecnico.">>,
     <<"Estou passando por uma atualizacao rapida.">>,
     <<"Desculpe a inconveniencia, tive uma falha momentanea.">> >>

\* getFallbackResponse with Math.floor(Math.random() * 4) = i - 1
getFallbackResponse(i) == fallbackResponses[i]

FallbackSet == {fallbackResponses[i] : i \in DOMAIN fallbackResponses}

\* The values of Math.floor(Math.random() * 4) + 1 that the handlers of
\* Spec draw: the first and the last phrase.  (The claims about
\* processMessage itself range over all four.)
FallbackDraws == {1, Len(fallbackResponses)}

\* What the completion service can answer.  threw: axios.post raised (HTTP
\* error status, timeout, network).  hasData: response.data is truthy.
\* text.k: "absent" (no text field), "str" (a string, v), "num" (a truthy
\* value that is no string, so that .trim is not a function).
CompletionResponse(threw, hasData, k, v) ==
  [threw |-> threw, hasData |-> hasData, text |-> [k |-> k, v |-> v]]

CompletionResponses ==
  { CompletionResponse(TRUE, FALSE, "absent", <<>>),
    CompletionResponse(FALSE, FALSE, "absent", <<>>),
    CompletionResponse(FALSE, TRUE, "absent", <<>>),
    CompletionResponse(FALSE, TRUE, "str", <<>>),
    CompletionResponse(FALSE, TRUE, "num", <<>>),
    CompletionResponse(FALSE, TRUE, "str", <<" ">>),
    CompletionResponse(FALSE, TRUE, "str", <<" ", "Oi", " ">>) }

\* response.data && response.data.text
HasText(resp) ==
  /\ resp.hasData
  /\ \/ resp.text.k = "num"
     \/ resp.text.k = "str" /\ resp.text.v # <<>>

\* processMessage whose catch returns nothing instead of a fallback phrase.
processMessageNoFallback(resp, i) ==
  IF resp.threw THEN <<>>
  ELSE IF HasText(resp) /\ resp.text.k = "str" THEN Trim(resp.text.v)
  ELSE getFallbackResponse(i)

\* FlowiseService.processMessage: the string it resolves to.  i is the
\* random index getFallbackResponse draws when it is called.
processMessage(resp, i) ==
  IF resp.threw THEN getFallbackResponse(i)
  ELSE IF HasText(resp)
    THEN IF resp.text.k = "str"
           THEN Trim(resp.text.v)
           ELSE getFallbackResponse(i)   \* .trim() raises inside the try
    ELSE getFallbackResponse(i)

\* The completion call failed: no usable text came back.
CompletionFailed(resp) ==
  resp.threw \/ ~HasText(resp) \/ resp.text.k # "str"

\* ------------------------------------------------ webhook payloads

\* An optional media part of a message body with its optional caption.
Media(caption) == [present |-> TRUE, caption |-> caption]
NoMedia == [present |-> FALSE, caption |-> NoTxt]

\* message.message of a gateway message: the fields extractMessageContent
\* reads.  present = FALSE: the message has no message body at all.
EmptyBody ==
  [present |-> TRUE, conversation |-> NoTxt, extendedTextMessage |-> NoTxt,
   imageMessage |-> NoMedia, videoMessage |-> NoMedia,
   documentMessage |-> NoMedia, audioMessage |-> FALSE,
   stickerMessage |-> FALSE]

NoBody == [EmptyBody EXCEPT !.present = FALSE]

\* One element of data.messages.  isNull: the element is null.  hasKey,
\* fromMe, remoteJid, id: message.key and its fields.
Message(fromMe, remoteJid, id, pushName, body) ==
  [isNull |-> FALSE, hasKey |-> TRUE, fromMe |-> fromMe,
   remoteJid |-> remoteJid, id |-> id, pushName |-> pushName,
   message |-> body]

NullMessage ==
  [Message(FALSE, NoTxt, "", NoTxt, NoBody) EXCEPT !.isNull = TRUE,
                                                   !.hasKey = FALSE]

NoMessages == [present |-> FALSE, items |-> <<>>]
Messages(items) == [present |-> TRUE, items |-> items]

\* The data field of the webhook body.  k: "absent" (no data field), "null",
\* "emptystr", "zero", "false" (a data field with that value), "truthy" (a
\* number, string or boolean that is truthy: it has no fields), "object".
\* state is the connection state ("undefined" when missing), qrcode the QR
\* payload.
Data(k, messages, state, qrcode) ==
  [k |-> k, messages |-> messages, state |-> state, qrcode |-> qrcode]

MessageData(items) == Data("object", Messages(items), "undefined", NoTxt)
ConnectionData(state) == Data("object", NoMessages, state, NoTxt)
QRData(qrcode) == Data("object", NoMessages, "undefined", qrcode)
ScalarData(k) == Data(k, NoMessages, "undefined", NoTxt)

\* A POST /webhook/whatsapp/{instanceId} request.
Request(instanceId, event, data) ==
  [instanceId |-> instanceId, event |-> event, data |-> data]

\* ---------------------------------------------- pure functions of webhook.ts

\* What a call that raised an exception gives in the place of a value.
Raised == [present |-> FALSE, v |-> <<>>, raised |-> TRUE]

\* extractMessageContent without its try/catch: reading message.message of
\* a null message raises.
extractMessageContentNoCatch(message) ==
  LET m == message.message IN
  IF message.isNull THEN Raised
  ELSE IF ~m.present THEN NoTxt
  ELSE IF Truthy(m.conversation) THEN m.conversation
  ELSE IF Truthy(m.extendedTextMessage) THEN m.extendedTextMessage
  ELSE IF m.imageMessage.present /\ Truthy(m.imageMessage.caption)
    THEN Txt(<<"[Image] ">> \o m.imageMessage.caption.v)
  ELSE IF m.videoMessage.present /\ Truthy(m.videoMessage.caption)
    THEN Txt(<<"[Video] ">> \o m.videoMessage.caption.v)
  ELSE IF m.documentMessage.present /\ Truthy(m.documentMessage.caption)
    THEN Txt(<<"[Document] ">> \o m.documentMessage.caption.v)
  ELSE IF m.audioMessage THEN Txt(<<"[Audio Message]">>)
  ELSE IF m.stickerMessage THEN Txt(<<"[Sticker]">>)
  ELSE NoTxt

\* extractMessageContent that looks at the sticker before the audio and at
\* the media captions before the texts.
extractMessageContentOtherOrder(message) ==
  LET m == message.message IN
  IF message.isNull THEN NoTxt
  ELSE IF ~m.present THEN NoTxt
  ELSE IF m.imageMessage.present /\ Truthy(m.imageMessage.caption)
    THEN Txt(<<"[Image] ">> \o m.imageMessage.caption.v)
  ELSE IF m.videoMessage.present /\ Truthy(m.videoMessage.caption)
    THEN Txt(<<"[Video] ">> \o m.videoMessage.caption.v)
  ELSE IF m.documentMessage.present /\ Truthy(m.documentMessage.caption)
    THEN Txt(<<"[Document] ">> \o m.documentMessage.caption.v)
  ELSE IF Truthy(m.conversation) THEN m.conversation
  ELSE IF Truthy(m.extendedTextMessage) THEN m.extendedTextMessage
  ELSE IF m.stickerMessage THEN Txt(<<"[Sticker]">>)
  ELSE IF m.audioMessage THEN Txt(<<"[Audio Message]">>)
  ELSE NoTxt

\* extractMessageContent: the extracted text, NoTxt for null.
extractMessageContent(message) ==
  LET m == message.message IN
  IF message.isNull THEN NoTxt   \* message.message raises, caught: null
  ELSE IF ~m.present THEN NoTxt
  ELSE IF Truthy(m.conversation) THEN m.conversation
  ELSE IF Truthy(m.extendedTextMessage) THEN m.extendedTextMessage
  ELSE IF m.imageMessage.present /\ Truthy(m.imageMessage.caption)
    THEN Txt(<<"[Image] ">> \o m.imageMessage.caption.v)
  ELSE IF m.videoMessage.present /\ Truthy(m.videoMessage.caption)
    THEN Txt(<<"[Video] ">> \o m.videoMessage.caption.v)
  ELSE IF m.documentMessage.present /\ Truthy(m.documentMessage.caption)
    THEN Txt(<<"[Document] ">> \o m.documentMessage.caption.v)
  ELSE IF m.audioMessage THEN Txt(<<"[Audio Message]">>)
  ELSE IF m.stickerMessage THEN Txt(<<"[Sticker]">>)
  ELSE NoTxt

\* mapConnectionStateToStatus without its default case: an unknown state
\* is stored as it is.
mapConnectionStateToStatusNoDefault(state) ==
  CASE state = "open" -> "connected"
    [] state = "connecting" -> "connecting"
    [] state \in {"close", "closed"} -> "inactive"
    [] OTHER -> state

\* mapConnectionStateToStatus
mapConnectionStateToStatus(state) ==
  CASE state = "open" -> "connected"
    [] state = "connecting" -> "connecting"
    [] state \in {"close", "closed"} -> "inactive"
    [] OTHER -> "error"

\* The check of line 19 left out: no payload is rejected.
InvalidWebhookDataNever(data) == FALSE

\* The check of line 19 with "data" in webhookData in the place of
\* webhookData.data: only a missing field is rejected.
InvalidWebhookDataOnlyAbsent(data) == data.k = "absent"

\* !webhookData || !webhookData.data: the falsy values of data.
InvalidWebhookData(data) ==
  data.k \in {"absent", "null", "emptystr", "zero", "false"}

\* ----------------------------------------------------------- the store

BotIds == {"b1", "b2"}
UserIds == {"u1"}

\* Bot documents as the bot routes create them: b1 is bound to instance i1
\* and active, b2 is bound to i2 and soft-deleted (isActive = false).  No
\* bot is bound to instance i3.
InitialBots ==
  [b \in BotIds |->
     [userId |-> "u1",
      instanceId |-> IF b = "b1" THEN "i1" ELSE "i2",
      isActive |-> (b = "b1"),
      persona |-> IF b = "b1" THEN "persona-b1" ELSE "persona-b2",
      status |-> "inactive",
      qrCode |-> NoTxt]]

Phone1 == <<"5", "5", "1">>
Phone2 == <<"5", "5", "2">>

\* An embedded message of a Conversation (messages[] of conversationSchema).
\* id stands for the uuid: the number of the request that made the message
\* (0: before the first request) and its number within the turn.
\* messageId is "" when the message has none.
ConvMessage(id, type, content, sender, messageId) ==
  [id |-> id, type |-> type, content |-> content, sender |-> sender,
   messageId |-> messageId]

\* A Conversation document.  lastMessageAt is a logical time stamp: the
\* number of the request that set it (0: before the first request).
ClosedConversation ==
  [botId |-> "b1", userId |-> "u1", customerPhone |-> Phone1,
   customerName |-> <<"Ana">>, status |-> "closed", lastMessageAt |-> 0,
   messages |-> << ConvMessage(<<0, 1>>, "text", <<"Bom dia">>, "customer", "m0") >>]

ActiveConversation ==
  [botId |-> "b1", userId |-> "u1", customerPhone |-> Phone1,
   customerName |-> <<"Ana">>, status |-> "active", lastMessageAt |-> 0,
   messages |-> << ConvMessage(<<0, 2>>, "text", <<"Oi">>, "customer", "m00"),
                   ConvMessage(<<0, 3>>, "text", <<"Ola">>, "bot", "") >>]

\* The Conversation collection when the first request arrives: customer
\* Phone1 of bot b1 has a closed conversation, and may have an active one.
InitialConversations ==
  { <<ClosedConversation>>, <<ClosedConversation, ActiveConversation>> }

\* ---------------------------------------------------- requests in Spec

Jid(phone) == Txt(phone \o WaSuffix)

TextBody(text) == [EmptyBody EXCEPT !.conversation = Txt(text)]
StickerBody == [EmptyBody EXCEPT !.stickerMessage = TRUE]
ImageBody(caption) == [EmptyBody EXCEPT !.imageMessage = Media(caption)]

TextMessage == Message(FALSE, Jid(Phone1), "m1", Txt(<<"Ana">>), TextBody(<<"Hi">>))
StickerMessage == Message(FALSE, Jid(Phone1), "m2", NoTxt, StickerBody)
OtherPhoneMessage ==
  Message(FALSE, Jid(Phone2), "m3", NoTxt, ImageBody(Txt(<<"foto">>)))
EchoMessage == Message(TRUE, Jid(Phone1), "m4", NoTxt, TextBody(<<"Ola">>))
NoJidMessage == Message(FALSE, NoTxt, "m5", NoTxt, TextBody(<<"Hi">>))
SuffixOnlyMessage == Message(FALSE, Txt(WaSuffix), "m6", NoTxt, TextBody(<<"Hi">>))
ReactionMessage == Message(FALSE, Jid(Phone1), "m7", NoTxt, EmptyBody)
NoCaptionMessage == Message(FALSE, Jid(Phone1), "m8", NoTxt, ImageBody(NoTxt))

\* messages.upsert requests that pass the five guards.
ReplyRequests ==
  << Request("i1", "messages.upsert", MessageData(<<TextMessage>>)) >>

\* messages.upsert requests that stop at a guard, or raise before one.
GuardRequests ==
  << Request("i1", "messages.upsert", Data("object", NoMessages, "undefined", NoTxt)),
     Request("i1", "messages.upsert", MessageData(<<>>)),
     Request("i1", "messages.upsert", MessageData(<<EchoMessage, TextMessage>>)),
     Request("i1", "messages.upsert", MessageData(<<NoJidMessage>>)),
     Request("i1", "messages.upsert", MessageData(<<SuffixOnlyMessage>>)),
     Request("i2", "messages.upsert", MessageData(<<TextMessage>>)),
     Request("i3", "messages.upsert", MessageData(<<TextMessage>>)),
     Request("i1", "messages.upsert", MessageData(<<ReactionMessage>>)),
     Request("i1", "messages.upsert", MessageData(<<NullMessage>>)) >>

StatusRequests ==
  << Request("i1", "connection.update", ConnectionData("open")),
     Request("i1", "qrcode.updated", QRData(Txt(<<"QR1">>))),
     Request("i1", "qrcode.updated", QRData(NoTxt)) >>

OtherRequests ==
  << Request("i1", "presence.update", ConnectionData("open")),
     Request("i1", "messages.upsert", ScalarData("absent")) >>

\* The requests that arrive, by number: a handler keeps the number of its
\* request (req.params and req.body are not changed by the code).
Requests == ReplyRequests \o GuardRequests \o StatusRequests \o OtherRequests

\* Further messages.upsert requests that pass the guards: an image with a
\* caption from another customer, and a sticker from the first customer.
MoreReplyRequests ==
  << Request("i1", "messages.upsert", MessageData(<<OtherPhoneMessage>>)),
     Request("i1", "messages.upsert", MessageData(<<StickerMessage>>)) >>

\* Requests whose body has a data field with a falsy value.
FalsyDataRequests ==
  << Request("i1", "connection.update", ScalarData("null")),
     Request("i1", "connection.update", ScalarData("emptystr")),
     Request("i1", "messages.upsert", ScalarData("zero")),
     Request("i1", "presence.update", ScalarData("false")) >>

\* connection.update requests with the other states of the gateway, one
\* with a state the gateway does not document and one without a state, and
\* requests for the instance of the inactive bot and for the unbound one.
ConnectionRequests ==
  << Request("i1", "connection.update", ConnectionData("connecting")),
     Request("i1", "connection.update", ConnectionData("close")),
     Request("i1", "connection.update", ConnectionData("closed")),
     Request("i1", "connection.update", ConnectionData("refused")),
     Request("i1", "connection.update", ConnectionData("undefined")),
     Request("i2", "connection.update", ConnectionData("open")),
     Request("i3", "connection.update", ConnectionData("open")) >>

\* Requests whose data field is a truthy value that is no object.
TruthyDataRequests ==
  << Request("i1", "messages.upsert", ScalarData("truthy")),
     Request("i1", "qrcode.updated", ScalarData("truthy")) >>

\* messages.upsert requests without content: an image without a caption
\* and a message without a message body.
NoContentRequests ==
  << Request("i1", "messages.upsert", MessageData(<<NoCaptionMessage>>)),
     Request("i1", "messages.upsert",
             MessageData(<<Message(FALSE, Jid(Phone1), "m9", NoTxt, NoBody)>>)) >>

\* qrcode.updated requests for the unbound instance and for the instance
\* of the inactive bot.
InstanceRequests ==
  << Request("i3", "qrcode.updated", QRData(Txt(<<"QR2">>))),
     Request("i2", "qrcode.updated", QRData(Txt(<<"QR2">>))) >>

\* Requests with an event tag that has no handler: one the gateway sends
\* for another purpose, and a body without an event field.
UnhandledRequests ==
  << Request("i1", "messages.update", MessageData(<<TextMessage>>)),
     Request("i1", "undefined", ConnectionData("open")) >>

\* '@g.us', the suffix of the identifier of a group
GroupSuffix == <<"@", "g", ".", "u", "s">>

\* A text message whose remoteJid is the identifier of a group.
GroupMessage ==
  Message(FALSE, Txt(Phone2 \o GroupSuffix), "m10", NoTxt, TextBody(<<"Hi">>))

\* messages.upsert requests with a remoteJid of another domain and with
\* several messages: two customer messages, and an echo before a customer
\* message.
PayloadRequests ==
  << Request("i1", "messages.upsert", MessageData(<<GroupMessage>>)),
     Request("i1", "messages.upsert",
             MessageData(<<TextMessage, OtherPhoneMessage>>)),
     Request("i1", "messages.upsert",
             MessageData(<<EchoMessage, OtherPhoneMessage>>)) >>

\* Every request of the model, by number; Requests is its beginning.
AllRequests ==
  Requests \o MoreReplyRequests \o FalsyDataRequests \o ConnectionRequests
    \o TruthyDataRequests \o NoContentRequests \o InstanceRequests
    \o UnhandledRequests \o PayloadRequests

\* The numbers in AllRequests of the requests of list, which follows the
\* requests of before.
NumbersOf(before, list) == (Len(before) + 1) .. (Len(before) + Len(list))

\* --------------------------------------------------------------- state

VARIABLES
  bots,    \* the Bot collection: bot id -> document
  convs,   \* the Conversation collection: documents in insertion order
  usage,   \* user id -> usage.totalMessages
  req,     \* request number -> the state of its handler
  call     \* the application of a pure function that is looked at

vars == <<bots, convs, usage, req, call>>

\* No pure function is looked at on its own.
NoCall == [fn |-> "", input |-> <<>>, output |-> <<>>, returned |-> FALSE]

NoConversation ==
  [botId |-> "", userId |-> "", customerPhone |-> <<>>, customerName |-> <<>>,
   status |-> "", lastMessageAt |-> 0, messages |-> <<>>]

\* A request that has not arrived.  request is the number of the request
\* in Requests (0: none), pc the await at which the handler is
\* suspended.  conversation is the in-memory document, convId the position
\* of the stored document it was loaded from (0: a new document) and loaded
\* the number of messages it had then.  The other fields record what the
\* handler did: response (HTTP status, 0: none yet), exit (how it ended),
\* caught (exceptions swallowed by a catch), completions and sends (the
\* calls made, with their arguments), sendResult, usageAdded, saves (writes
\* of the conversation) and trace (the effects in the order they happened).
IdleRequest ==
  [pc |-> "idle", request |-> 0,
   response |-> 0, exit |-> "", caught |-> 0,
   customerPhone |-> <<>>, botId |-> "",
   conversation |-> NoConversation, convId |-> 0, loaded |-> 0,
   messageContent |-> <<>>, aiResponse |-> <<>>, completionFailed |-> FALSE,
   completions |-> <<>>, sends |-> <<>>, sendResult |-> "none",
   usageAdded |-> 0, saves |-> 0, trace |-> <<>>]

Init ==
  /\ bots = InitialBots
  /\ convs \in InitialConversations
  /\ usage = [u \in UserIds |-> 0]
  /\ req = [r \in Reqs |-> IdleRequest]
  /\ call = NoCall

\* req.params.instanceId and the event and data of req.body
InstanceId(q) == AllRequests[q.request].instanceId
Event(q) == AllRequests[q.request].event
WebhookData(q) == AllRequests[q.request].data

\* ------------------------------------------------- ends of a handler

\* The handler function returned and the router answered (webhook.ts:44),
\* or the router answered 400 (webhook.ts:21).
Finish(q, status, exit) ==
  [q EXCEPT !.pc = "done", !.response = status, !.exit = exit]

\* HandlerCatch without the try/catch of the handler functions: the
\* exception reaches the catch of the router, which answers 500.
HandlerCatchMissing(q) == Finish(q, 500, "error")

\* An exception inside handleIncomingMessage, handleConnectionUpdate or
\* handleQRCodeUpdate: their catch logs it and the function returns.
HandlerCatch(q) == Finish([q EXCEPT !.caught = @ + 1], 200, "caught")

\* ------------------------------------------- handleIncomingMessage

\* message.key?.remoteJid?.replace('@s.whatsapp.net', '')
CustomerPhone(message) ==
  IF message.hasKey /\ message.remoteJid.present
    THEN Txt(RemoveFirst(message.remoteJid.v, WaSuffix))
    ELSE NoTxt

\* StartIncomingMessage that goes on with the second message when the
\* first one is self-authored.
StartIncomingMessageSkipsEcho(q) ==
  LET messages == WebhookData(q).messages
      first == messages.items[1]
      message == IF ~first.isNull /\ first.hasKey /\ first.fromMe
                    /\ Len(messages.items) > 1
                   THEN messages.items[2] ELSE first
  IN IF ~messages.present \/ Len(messages.items) = 0
       THEN Finish(q, 200, "guard-messages")
     ELSE IF message.isNull
       THEN HandlerCatch(q)
     ELSE IF message.hasKey /\ message.fromMe
       THEN Finish(q, 200, "guard-fromMe")
     ELSE IF ~Truthy(CustomerPhone(message))
       THEN Finish(q, 200, "guard-phone")
     ELSE [q EXCEPT !.pc = "findBot",
                    !.customerPhone = CustomerPhone(message).v,
                    !.trace = Append(@, "Bot.findOne")]

\* handleIncomingMessage up to its first await (lines 54-73).
StartIncomingMessage(q) ==
  LET messages == WebhookData(q).messages
      message == messages.items[1]
  IN IF ~messages.present \/ Len(messages.items) = 0
       THEN Finish(q, 200, "guard-messages")
     ELSE IF message.isNull
       THEN HandlerCatch(q)              \* message.key raises a TypeError
     ELSE IF message.hasKey /\ message.fromMe
       THEN Finish(q, 200, "guard-fromMe")
     ELSE IF ~Truthy(CustomerPhone(message))
       THEN Finish(q, 200, "guard-phone")
     ELSE [q EXCEPT !.pc = "findBot",
                    !.customerPhone = CustomerPhone(message).v,
                    !.trace = Append(@, "Bot.findOne")]

\* Bot.findOne({ instanceId }) without the isActive filter.
ActiveBotsOfAnyActivity(instanceId) ==
  {b \in BotIds : bots[b].instanceId = instanceId}

\* Bot.findOne({ instanceId, isActive: true })
ActiveBotsOf(instanceId) ==
  {b \in BotIds : bots[b].instanceId = instanceId /\ bots[b].isActive}

\* Lines 74-84: the bot lookup returned bot b ("" for null).
AfterFindBot(q, b) ==
  IF b = ""
    THEN Finish(q, 200, "guard-bot")
    ELSE [q EXCEPT !.pc = "findConv", !.botId = b,
                   !.trace = Append(@, "Conversation.findOne")]

\* Conversation.findOne({ botId, customerPhone }) without the status filter.
ConversationsOfAnyStatus(botId, customerPhone) ==
  {i \in DOMAIN convs : /\ convs[i].botId = botId
                        /\ convs[i].customerPhone = customerPhone}

\* Conversation.findOne({ botId, customerPhone, status: 'active' }): the
\* positions of the matching documents.
ActiveConversationsOf(botId, customerPhone) ==
  {i \in DOMAIN convs : /\ convs[i].botId = botId
                        /\ convs[i].customerPhone = customerPhone
                        /\ convs[i].status = "active"}

Min(S) == CHOOSE x \in S : \A y \in S : x <= y

\* new Conversation({...}) of lines 87-95 (customerPhone has trim: true).
NewConversation(q, message, r) ==
  [botId |-> q.botId, userId |-> bots[q.botId].userId,
   customerPhone |-> Trim(q.customerPhone),
   customerName |-> IF Truthy(message.pushName)
                      THEN Trim(message.pushName.v)
                      ELSE Trim(q.customerPhone),
   status |-> "active", lastMessageAt |-> r, messages |-> <<>>]

\* Lines 86-125: the conversation lookup returned the document at position
\* id (0 for null).  r is the request's number, used as the time stamp.
AfterFindConversation(q, id, r) ==
  LET message == WebhookData(q).messages.items[1]
      conversation == IF id = 0 THEN NewConversation(q, message, r)
                                ELSE convs[id]
      messageContent == extractMessageContent(message)
      customerMessage ==
        ConvMessage(<<r, 1>>, "text", messageContent.v, "customer", message.id)
  IN IF ~Truthy(messageContent)
       THEN Finish([q EXCEPT !.trace = IF id = 0 THEN Append(@, "new Conversation")
                                                  ELSE @],
                   200, "guard-content")
       ELSE [q EXCEPT
               !.pc = "complete",
               !.convId = id,
               !.loaded = Len(conversation.messages),
               !.conversation =
                  [conversation EXCEPT !.messages = Append(@, customerMessage),
                                       !.lastMessageAt = r],
               !.messageContent = messageContent.v,
               !.completions =
                  Append(@, [persona |-> bots[q.botId].persona,
                             input |-> messageContent.v]),
               !.trace = @ \o (IF id = 0 THEN <<"new Conversation">> ELSE <<>>)
                           \o <<"push customer", "lastMessageAt",
                                "processMessage">>]

\* AfterCompletion that sends the reply without appending the bot message.
AfterCompletionNoPush(q, aiResponse, r) ==
  IF aiResponse # <<>>
    THEN [q EXCEPT
            !.pc = "send",
            !.aiResponse = aiResponse,
            !.sends =
               Append(@, [instanceName |-> InstanceId(q),
                          number |-> formatPhoneNumber(q.customerPhone),
                          text |-> aiResponse]),
            !.trace = @ \o <<"sendMessage">>]
    ELSE [q EXCEPT !.pc = "save", !.aiResponse = aiResponse,
                   !.trace = Append(@, "save")]

\* AfterCompletion that returns without saving when the reply is empty.
AfterCompletionSkipsSave(q, aiResponse, r) ==
  IF aiResponse # <<>>
    THEN [q EXCEPT
            !.pc = "send",
            !.aiResponse = aiResponse,
            !.conversation.messages =
               Append(@, ConvMessage(<<r, 2>>, "text", aiResponse, "bot", "")),
            !.sends =
               Append(@, [instanceName |-> InstanceId(q),
                          number |-> formatPhoneNumber(q.customerPhone),
                          text |-> aiResponse]),
            !.trace = @ \o <<"push bot", "sendMessage">>]
    ELSE Finish([q EXCEPT !.aiResponse = aiResponse], 200, "completed")

\* Lines 127-141 and 150: processMessage resolved to aiResponse.  r is the
\* request's number.
AfterCompletion(q, aiResponse, r) ==
  IF aiResponse # <<>>
    THEN [q EXCEPT
            !.pc = "send",
            !.aiResponse = aiResponse,
            !.conversation.messages =
               Append(@, ConvMessage(<<r, 2>>, "text", aiResponse, "bot", "")),
            !.sends =
               Append(@, [instanceName |-> InstanceId(q),
                          number |-> formatPhoneNumber(q.customerPhone),
                          text |-> aiResponse]),
            !.trace = @ \o <<"push bot", "sendMessage">>]
    ELSE [q EXCEPT !.pc = "save", !.aiResponse = aiResponse,
                   !.trace = Append(@, "save")]

\* AfterSend that gives the turn up when the send failed.
AfterSendStopsOnFailure(q, ok) ==
  IF ok
    THEN [q EXCEPT !.pc = "usage", !.sendResult = "true",
                   !.trace = Append(@, "User.findByIdAndUpdate")]
    ELSE Finish([q EXCEPT !.sendResult = "false"], 200, "send-failed")

\* AfterSend that sends once more when the send failed.
AfterSendRetries(q, ok) ==
  IF ~ok /\ Len(q.sends) = 1
    THEN [q EXCEPT !.pc = "send", !.sends = Append(@, @[1]),
                   !.trace = Append(@, "sendMessage")]
    ELSE [q EXCEPT !.pc = "usage",
                   !.sendResult = IF ok THEN "true" ELSE "false",
                   !.trace = Append(@, "User.findByIdAndUpdate")]

\* Lines 141-146: sendMessage resolved to ok; its value is not looked at.
AfterSend(q, ok) ==
  [q EXCEPT !.pc = "usage",
            !.sendResult = IF ok THEN "true" ELSE "false",
            !.trace = Append(@, "User.findByIdAndUpdate")]

\* $inc: { 'usage.totalMessages': 2 } of line 145.
UsageIncrement == 2

\* Lines 144-150: the usage update was applied.
AfterUsage(q) ==
  [q EXCEPT !.pc = "save", !.usageAdded = @ + UsageIncrement,
            !.trace = Append(@, "save")]

\* conversation.save() that writes the whole messages array of the
\* in-memory document over the stored one.
SaveConversationOverwrites(cs, q) ==
  IF q.convId = 0
    THEN Append(cs, q.conversation)
    ELSE [cs EXCEPT ![q.convId].messages = q.conversation.messages,
                    ![q.convId].lastMessageAt = q.conversation.lastMessageAt]

\* conversation.save() that writes a loaded document only when the stored
\* one still has the messages it was loaded with.
SaveConversationVersioned(cs, q) ==
  IF q.convId = 0
    THEN Append(cs, q.conversation)
    ELSE IF Len(cs[q.convId].messages) # q.loaded
      THEN cs
      ELSE [cs EXCEPT
              ![q.convId].messages =
                 @ \o SubSeq(q.conversation.messages, q.loaded + 1,
                             Len(q.conversation.messages)),
              ![q.convId].lastMessageAt = q.conversation.lastMessageAt]

\* conversation.save(): a new document is inserted; a loaded one is updated
\* by $push of the messages appended since it was loaded and $set of
\* lastMessageAt.
SaveConversation(cs, q) ==
  IF q.convId = 0
    THEN Append(cs, q.conversation)
    ELSE [cs EXCEPT
            ![q.convId].messages =
               @ \o SubSeq(q.conversation.messages, q.loaded + 1,
                           Len(q.conversation.messages)),
            ![q.convId].lastMessageAt = q.conversation.lastMessageAt]

\* AfterSave of a handler that saves a second time.
AfterSaveTwice(q) ==
  IF q.saves = 0
    THEN [q EXCEPT !.saves = @ + 1, !.trace = Append(@, "save")]
    ELSE Finish([q EXCEPT !.saves = @ + 1], 200, "completed")

\* Line 150 returned: the handler is finished.
AfterSave(q) == Finish([q EXCEPT !.saves = @ + 1], 200, "completed")

\* -------------------------------- handleConnectionUpdate, handleQRCodeUpdate

\* The filter of Bot.findOneAndUpdate with isActive: true added.
BotsOfActiveOnly(instanceId) ==
  {b \in BotIds : bots[b].instanceId = instanceId /\ bots[b].isActive}

\* Bot.findOneAndUpdate({ instanceId }, update): the bots that match, and
\* the one it updates (an instance is bound to at most one bot).
BotsOf(instanceId) == {b \in BotIds : bots[b].instanceId = instanceId}

UpdatedBot(instanceId) ==
  IF BotsOf(instanceId) = {} THEN ""
  ELSE CHOOSE b \in BotsOf(instanceId) : TRUE

\* The update of lines 167-173 with qrCode: null for every state.
ConnectionUpdateAlwaysClears(bot, state) ==
  [bot EXCEPT !.status = mapConnectionStateToStatus(state),
              !.qrCode = NoTxt]

\* The update of lines 167-173 applied to a bot document.
ConnectionUpdate(bot, state) ==
  [bot EXCEPT !.status = mapConnectionStateToStatus(state),
              !.qrCode = IF state = "open" THEN NoTxt ELSE @]

\* The update of lines 188-194 that leaves a connected bot connected.
QRCodeUpdateKeepsConnected(bot, qrcode) ==
  [bot EXCEPT !.qrCode = qrcode,
              !.status = IF @ = "connected" THEN @ ELSE "connecting"]

\* The update of lines 188-194 applied to a bot document.
QRCodeUpdate(bot, qrcode) ==
  [bot EXCEPT !.qrCode = qrcode, !.status = "connecting"]

\* ------------------------------------------------------------- actions

\* Requests are numbered in the order of their arrival.
Arrives(r) ==
  /\ req[r].pc = "idle"
  /\ \A k \in Reqs : k < r => req[k].pc # "idle"

Arrived(r, p) == [req[r] EXCEPT !.request = p]

\* Lines 19-22: no data, answered 400.
ReceiveInvalidOf(r, menu) ==
  /\ Arrives(r)
  /\ \E p \in menu :
       /\ InvalidWebhookData(AllRequests[p].data)
       /\ req' = [req EXCEPT ![r] = Finish(Arrived(r, p), 400, "invalid")]
  /\ UNCHANGED <<bots, convs, usage, call>>

\* ReceiveInvalidOf with the requests of Spec.
ReceiveInvalid(r) == ReceiveInvalidOf(r, DOMAIN Requests)

\* Lines 28-30 and 54-73: a messages.upsert event, up to the bot lookup.
ReceiveMessageOf(r, menu) ==
  /\ Arrives(r)
  /\ \E p \in menu :
       /\ ~InvalidWebhookData(AllRequests[p].data)
       /\ AllRequests[p].event = "messages.upsert"
       /\ req' = [req EXCEPT ![r] = StartIncomingMessage(Arrived(r, p))]
  /\ UNCHANGED <<bots, convs, usage, call>>

\* ReceiveMessageOf with the requests of Spec.
ReceiveMessage(r) == ReceiveMessageOf(r, DOMAIN Requests)

\* Lines 32-34 and 160-167: a connection.update event, up to the update.
ReceiveConnectionOf(r, menu) ==
  /\ Arrives(r)
  /\ \E p \in menu :
       /\ ~InvalidWebhookData(AllRequests[p].data)
       /\ AllRequests[p].event = "connection.update"
       /\ req' = [req EXCEPT ![r] =
                    [Arrived(r, p) EXCEPT !.pc = "connectionUpdate",
                                          !.trace = Append(@, "Bot.findOneAndUpdate")]]
  /\ UNCHANGED <<bots, convs, usage, call>>

\* ReceiveConnectionOf with the requests of Spec.
ReceiveConnection(r) == ReceiveConnectionOf(r, DOMAIN Requests)

\* Lines 36-38 and 185-188: a qrcode.updated event, up to the update.
ReceiveQRCodeOf(r, menu) ==
  /\ Arrives(r)
  /\ \E p \in menu :
       /\ ~InvalidWebhookData(AllRequests[p].data)
       /\ AllRequests[p].event = "qrcode.updated"
       /\ req' = [req EXCEPT ![r] =
                    IF Truthy(AllRequests[p].data.qrcode)
                      THEN [Arrived(r, p) EXCEPT !.pc = "qrUpdate",
                                                 !.trace = Append(@, "Bot.findOneAndUpdate")]
                      ELSE Finish(Arrived(r, p), 200, "no-qrcode")]
  /\ UNCHANGED <<bots, convs, usage, call>>

\* ReceiveQRCodeOf with the requests of Spec.
ReceiveQRCode(r) == ReceiveQRCodeOf(r, DOMAIN Requests)

\* The default case answering 400 for an event tag without a handler.
ReceiveUnhandledRejects(r, menu) ==
  /\ Arrives(r)
  /\ \E p \in menu :
       /\ ~InvalidWebhookData(AllRequests[p].data)
       /\ AllRequests[p].event \notin {"messages.upsert", "connection.update", "qrcode.updated"}
       /\ req' = [req EXCEPT ![r] = Finish(Arrived(r, p), 400, "unhandled")]
  /\ UNCHANGED <<bots, convs, usage, call>>

\* Lines 40-44: any other event tag.
ReceiveUnhandledOf(r, menu) ==
  /\ Arrives(r)
  /\ \E p \in menu :
       /\ ~InvalidWebhookData(AllRequests[p].data)
       /\ AllRequests[p].event \notin {"messages.upsert", "connection.update", "qrcode.updated"}
       /\ req' = [req EXCEPT ![r] = Finish(Arrived(r, p), 200, "unhandled")]
  /\ UNCHANGED <<bots, convs, usage, call>>

\* ReceiveUnhandledOf with the requests of Spec.
ReceiveUnhandled(r) == ReceiveUnhandledOf(r, DOMAIN Requests)

\* Line 73 returns: the bot, null, or a store error.
FindBotReturns(r) ==
  /\ req[r].pc = "findBot"
  /\ \/ \E b \in ActiveBotsOf(InstanceId(req[r])) :
          req' = [req EXCEPT ![r] = AfterFindBot(req[r], b)]
     \/ /\ ActiveBotsOf(InstanceId(req[r])) = {}
        /\ req' = [req EXCEPT ![r] = AfterFindBot(req[r], "")]
     \/ req' = [req EXCEPT ![r] = HandlerCatch(req[r])]
  /\ UNCHANGED <<bots, convs, usage, call>>

\* Line 80 returns: the first active conversation, null, or a store error.
FindConversationReturns(r) ==
  /\ req[r].pc = "findConv"
  /\ LET found == ActiveConversationsOf(req[r].botId, req[r].customerPhone)
     IN \/ req' = [req EXCEPT ![r] =
                     AfterFindConversation(
                       req[r], IF found = {} THEN 0 ELSE Min(found), r)]
        \/ req' = [req EXCEPT ![r] = HandlerCatch(req[r])]
  /\ UNCHANGED <<bots, convs, usage, call>>

\* Line 120 returns: whatever the completion service did, processMessage
\* resolves to a string.
CompletionReturns(r) ==
  /\ req[r].pc = "complete"
  /\ \E resp \in CompletionResponses, i \in FallbackDraws :
       req' = [req EXCEPT ![r] =
                 AfterCompletion(
                   [req[r] EXCEPT !.completionFailed = CompletionFailed(resp)],
                   processMessage(resp, i), r)]
  /\ UNCHANGED <<bots, convs, usage, call>>

\* Line 141 returns: sendMessage resolves to true or false.
SendReturns(r) ==
  /\ req[r].pc = "send"
  /\ \E outcome \in GatewayOutcomes :
       req' = [req EXCEPT ![r] = AfterSend(req[r], sendMessageResult(outcome))]
  /\ UNCHANGED <<bots, convs, usage, call>>

\* UsageReturns of a handler that writes the conversation before the usage
\* update instead of after it.
UsageReturnsAfterSave(r) ==
  /\ req[r].pc = "usage"
  /\ convs' = SaveConversation(convs, req[r])
  /\ \/ /\ usage' = [usage EXCEPT ![bots[req[r].botId].userId] = @ + UsageIncrement]
        /\ req' = [req EXCEPT ![r] = AfterUsage(req[r])]
     \/ /\ req' = [req EXCEPT ![r] = HandlerCatch(req[r])]
        /\ UNCHANGED usage
  /\ UNCHANGED <<bots, call>>

\* Line 144 returns: the counter was incremented, or a store error.
UsageReturns(r) ==
  /\ req[r].pc = "usage"
  /\ \/ /\ usage' = [usage EXCEPT ![bots[req[r].botId].userId] = @ + UsageIncrement]
        /\ req' = [req EXCEPT ![r] = AfterUsage(req[r])]
     \/ /\ req' = [req EXCEPT ![r] = HandlerCatch(req[r])]
        /\ UNCHANGED usage
  /\ UNCHANGED <<bots, convs, call>>

\* Line 150 returns: the conversation was written, or a store error.
SaveReturns(r) ==
  /\ req[r].pc = "save"
  /\ \/ /\ convs' = SaveConversation(convs, req[r])
        /\ req' = [req EXCEPT ![r] = AfterSave(req[r])]
     \/ /\ req' = [req EXCEPT ![r] = HandlerCatch(req[r])]
        /\ UNCHANGED convs
  /\ UNCHANGED <<bots, usage, call>>

\* ConnectionUpdateReturns with the option upsert: when no bot is bound to
\* the instance, a bot document is created.
ConnectionUpdateReturnsUpserts(r) ==
  /\ req[r].pc = "connectionUpdate"
  /\ LET found == UpdatedBot(InstanceId(req[r]))
         state == WebhookData(req[r]).state
     IN /\ bots' = IF found = ""
                     THEN [b \in BotIds \cup {InstanceId(req[r])} |->
                             IF b \in BotIds THEN bots[b]
                             ELSE [instanceId |-> b,
                                   status |-> mapConnectionStateToStatus(state)]]
                     ELSE [bots EXCEPT ![found] = ConnectionUpdate(@, state)]
        /\ req' = [req EXCEPT ![r] = Finish(req[r], 200, "completed")]
  /\ UNCHANGED <<convs, usage, call>>

\* Line 167 returns: the bot of the instance was updated (none: no-op), or
\* a store error.
ConnectionUpdateReturns(r) ==
  /\ req[r].pc = "connectionUpdate"
  /\ LET found == UpdatedBot(InstanceId(req[r]))
     IN \/ /\ bots' = [b \in BotIds |->
                         IF b = found
                           THEN ConnectionUpdate(bots[b], WebhookData(req[r]).state)
                           ELSE bots[b]]
           /\ req' = [req EXCEPT ![r] = Finish(req[r], 200, "completed")]
        \/ /\ req' = [req EXCEPT ![r] = HandlerCatch(req[r])]
           /\ UNCHANGED <<bots, call>>
  /\ UNCHANGED <<convs, usage, call>>

\* Line 188 returns.
QRCodeUpdateReturns(r) ==
  /\ req[r].pc = "qrUpdate"
  /\ LET found == UpdatedBot(InstanceId(req[r]))
     IN \/ /\ bots' = [b \in BotIds |->
                         IF b = found
                           THEN QRCodeUpdate(bots[b], WebhookData(req[r]).qrcode)
                           ELSE bots[b]]
           /\ req' = [req EXCEPT ![r] = Finish(req[r], 200, "completed")]
        \/ /\ req' = [req EXCEPT ![r] = HandlerCatch(req[r])]
           /\ UNCHANGED <<bots, call>>
  /\ UNCHANGED <<convs, usage, call>>

Next ==
  \E r \in Reqs :
    \/ ReceiveInvalid(r)
    \/ ReceiveMessage(r)
    \/ ReceiveConnection(r)
    \/ ReceiveQRCode(r)
    \/ ReceiveUnhandled(r)
    \/ FindBotReturns(r)
    \/ FindConversationReturns(r)
    \/ CompletionReturns(r)
    \/ SendReturns(r)
    \/ UsageReturns(r)
    \/ SaveReturns(r)
    \/ ConnectionUpdateReturns(r)
    \/ QRCodeUpdateReturns(r)

Spec == Init /\ [][Next]_vars

\* ------------------------------ messages handled one after another

\* The message requests that arrive when requests are handled one after
\* another: the text and the sticker of the first customer, the image of
\* the second, and messages without content (a reaction, an image without
\* a caption, a message without a body).
SequentialMenu ==
  NumbersOf(<<>>, ReplyRequests) \cup NumbersOf(Requests, MoreReplyRequests)
    \cup {p \in DOMAIN Requests :
            Requests[p] = Request("i1", "messages.upsert",
                                  MessageData(<<ReactionMessage>>))}
    \cup NumbersOf(Requests \o MoreReplyRequests \o FalsyDataRequests
                     \o ConnectionRequests \o TruthyDataRequests,
                   NoContentRequests)

\* No other request is being handled.
NoneRunning(r) == \A k \in Reqs \ {r} : req[k].pc \in {"idle", "done"}

\* A request arrives only when the one before it has been answered.
NextSequential ==
  \E r \in Reqs :
    \/ NoneRunning(r) /\ ReceiveMessageOf(r, SequentialMenu)
    \/ FindBotReturns(r)
    \/ FindConversationReturns(r)
    \/ CompletionReturns(r)
    \/ SendReturns(r)
    \/ UsageReturns(r)
    \/ SaveReturns(r)

SpecSequential == Init /\ [][NextSequential]_vars

\* -------------------- other payloads, handled one after another

PayloadsMenu ==
  NumbersOf(Requests \o MoreReplyRequests \o FalsyDataRequests
              \o ConnectionRequests \o TruthyDataRequests
              \o NoContentRequests \o InstanceRequests \o UnhandledRequests,
            PayloadRequests)

NextPayloads ==
  \E r \in Reqs :
    \/ NoneRunning(r) /\ ReceiveMessageOf(r, PayloadsMenu)
    \/ FindBotReturns(r)
    \/ FindConversationReturns(r)
    \/ CompletionReturns(r)
    \/ SendReturns(r)
    \/ UsageReturns(r)
    \/ SaveReturns(r)

SpecPayloads == Init /\ [][NextPayloads]_vars

\* ------------------------------------- events that are no customer message

\* The requests of the status events, of the unhandled event and of the
\* bodies without a data object.
EventsMenu ==
  NumbersOf(ReplyRequests \o GuardRequests, StatusRequests \o OtherRequests)
    \cup NumbersOf(Requests \o MoreReplyRequests,
                   FalsyDataRequests \o ConnectionRequests \o TruthyDataRequests)
    \cup NumbersOf(Requests \o MoreReplyRequests \o FalsyDataRequests
                     \o ConnectionRequests \o TruthyDataRequests
                     \o NoContentRequests,
                   InstanceRequests \o UnhandledRequests)
    \cup {p \in DOMAIN AllRequests :
            AllRequests[p] = Request("i2", "messages.upsert",
                                     MessageData(<<TextMessage>>))}

NextEvents ==
  \E r \in Reqs :
    \/ ReceiveInvalidOf(r, EventsMenu)
    \/ ReceiveMessageOf(r, EventsMenu)
    \/ ReceiveConnectionOf(r, EventsMenu)
    \/ ReceiveQRCodeOf(r, EventsMenu)
    \/ ReceiveUnhandledOf(r, EventsMenu)
    \/ FindBotReturns(r)
    \/ ConnectionUpdateReturns(r)
    \/ QRCodeUpdateReturns(r)

SpecEvents == Init /\ [][NextEvents]_vars

\* ------------------------------------------------ formatPhoneNumber alone

\* The longest run of digits that follows the beginning of a phone string.
MaxFiller == 13

\* n times the digit 9
Filler(n) == [k \in 1..n |-> "9"]

\* How a phone string begins and ends: with or without the country code 55
\* and the area code 11, with and without punctuation, and with what the
\* handler leaves of a remoteJid of another domain.
PhoneBeginnings ==
  { <<>>, <<"5", "5">>, <<"1", "1">>, <<"5", "5", "1", "1">>, <<"5">>,
    <<"+", "5", "5", " ">>, <<"(", "1", "1", ")", " ">>, <<"0">> }
PhoneEndings == { <<>>, <<"-", "1">>, GroupSuffix }

\* The arguments of formatPhoneNumber.
PhoneInputs ==
  { b \o Filler(n) \o e :
      b \in PhoneBeginnings, n \in 0..MaxFiller, e \in PhoneEndings }

InitFormat ==
  /\ bots = InitialBots
  /\ convs \in InitialConversations
  /\ usage = [u \in UserIds |-> 0]
  /\ req = [r \in Reqs |-> IdleRequest]
  /\ \E phoneNumber \in PhoneInputs :
       call = [fn |-> "formatPhoneNumber", input |-> phoneNumber,
               output |-> <<>>, returned |-> FALSE]

\* formatPhoneNumber(phoneNumber) returns.
FormatReturns ==
  /\ call.fn = "formatPhoneNumber" /\ ~call.returned
  /\ call' = [call EXCEPT !.output = formatPhoneNumber(call.input),
                          !.returned = TRUE]
  /\ UNCHANGED <<bots, convs, usage, req>>

SpecFormat == InitFormat /\ [][FormatReturns]_vars

\* ----------------------------------------- extractMessageContent alone

\* The values of the text fields and of the media fields of a message
\* body: missing, empty, or a text; no media, media without a caption, with
\* an empty one, with a caption.
TextFields(text) == {NoTxt, Txt(<<>>), Txt(text)}
MediaFields(caption) ==
  {NoMedia, Media(NoTxt), Media(Txt(<<>>)), Media(Txt(caption))}

MessageBodies ==
  { [present |-> TRUE, conversation |-> c, extendedTextMessage |-> e,
     imageMessage |-> i, videoMessage |-> v, documentMessage |-> d,
     audioMessage |-> a, stickerMessage |-> k] :
       c \in TextFields(<<"Hi">>), e \in TextFields(<<"Re">>),
       i \in MediaFields(<<"foto">>), v \in {NoMedia, Media(Txt(<<"clip">>))},
       d \in {NoMedia, Media(NoTxt), Media(Txt(<<"doc">>))},
       a \in BOOLEAN, k \in BOOLEAN }

\* The arguments of extractMessageContent: a message with one of these
\* bodies or with none, and null.
ExtractInputs ==
  { Message(FALSE, Jid(Phone1), "m1", NoTxt, body) :
      body \in MessageBodies \cup {NoBody} } \cup {NullMessage}

InitExtract ==
  /\ bots = InitialBots
  /\ convs \in InitialConversations
  /\ usage = [u \in UserIds |-> 0]
  /\ req = [r \in Reqs |-> IdleRequest]
  /\ \E message \in ExtractInputs :
       call = [fn |-> "extractMessageContent", input |-> message,
               output |-> NoTxt, returned |-> FALSE]

\* extractMessageContent(message) returns.
ExtractReturns ==
  /\ call.fn = "extractMessageContent" /\ ~call.returned
  /\ call' = [call EXCEPT !.output = extractMessageContent(call.input),
                          !.returned = TRUE]
  /\ UNCHANGED <<bots, convs, usage, req>>

SpecExtract == InitExtract /\ [][ExtractReturns]_vars

\* ------------------------------------------------------------- claims

Started(r) == req[r].pc # "idle"
Done(r) == req[r].pc = "done"

\* The request of handler q carries a data object.
HasDataObject(q) == WebhookData(q).k = "object"

\* The five guards of the MessageReceived path, read off the request and
\* the Bot collection: a non-empty messages array, a first message that is
\* not self-authored, a customer phone, an active bot bound to the
\* instance, extractable content.
FirstMessage(q) == WebhookData(q).messages.items[1]

PassesGuards(q) ==
  /\ HasDataObject(q)
  /\ Event(q) = "messages.upsert"
  /\ WebhookData(q).messages.present
  /\ Len(WebhookData(q).messages.items) > 0
  /\ ~FirstMessage(q).isNull
  /\ ~FirstMessage(q).fromMe
  /\ FirstMessage(q).remoteJid.present
  /\ RemoveFirst(FirstMessage(q).remoteJid.v, WaSuffix) # <<>>
  /\ \E b \in BotIds : bots[b].instanceId = InstanceId(q) /\ bots[b].isActive
  /\ Truthy(extractMessageContent(FirstMessage(q)))

\* C1: every request whose body carries a data object is answered 200,
\* whatever was raised inside the event handler: a finished request has
\* the response 200, also when an exception was caught on the way, and no
\* request is ever answered 500.
C1_AlwaysAcknowledged ==
  \A r \in Reqs :
    /\ req[r].response \in {0, 200, 400}
    /\ (Done(r) /\ HasDataObject(req[r])) => req[r].response = 200

\* C1 witness: a conversation save raised, was swallowed, and the request
\* was answered 200.
C1_Witness ==
  \E r \in Reqs :
    /\ Done(r) /\ HasDataObject(req[r])
    /\ req[r].caught = 1
    /\ req[r].trace # <<>> /\ req[r].trace[Len(req[r].trace)] = "save"
    /\ req[r].response = 200

\* C2 (as claimed): a finished handler of an event that passes the five
\* guards, with no store error on its way, has made exactly one gateway
\* send.
C2_ExactlyOneReplyAttempt ==
  \A r \in Reqs :
    (Done(r) /\ PassesGuards(req[r]) /\ req[r].caught = 0)
      => Len(req[r].sends) = 1

\* C3 (as claimed): at most one stored Conversation is active for each
\* (botId, customerPhone).
C3_AtMostOneActiveConversation ==
  \A i \in DOMAIN convs, j \in DOMAIN convs :
    ( /\ convs[i].status = "active" /\ convs[j].status = "active"
      /\ convs[i].botId = convs[j].botId
      /\ convs[i].customerPhone = convs[j].customerPhone ) => i = j

\* The MessageReceived path is taken and stops at one of the five guards.
StopsAtGuard(q) ==
  /\ HasDataObject(q)
  /\ Event(q) = "messages.upsert"
  /\ ~PassesGuards(q)
  /\ \/ ~WebhookData(q).messages.present
     \/ Len(WebhookData(q).messages.items) = 0
     \/ ~FirstMessage(q).isNull

\* The handler of request r takes this step.
Steps(r) == req'[r] # req[r]

\* C4: a handler whose event stops at a guard changes no persisted state
\* and makes no call: every step it takes leaves the Conversation, Bot and
\* usage data as they are, and it never records a completion call, a
\* gateway send, a usage increment or a save.  (So delivering the same
\* payload again leaves the store identical.)
C4_GuardExitChangesNothing ==
  [][ \A r \in Reqs :
        (Steps(r) /\ StopsAtGuard(req'[r])) =>
           /\ convs' = convs /\ usage' = usage /\ bots' = bots
           /\ req'[r].completions = <<>> /\ req'[r].sends = <<>>
           /\ req'[r].usageAdded = 0 /\ req'[r].saves = 0
           /\ req'[r].pc \in {"findBot", "findConv", "done"}
           /\ req'[r].pc = "done" => req'[r].response = 200 ]_vars

\* C4 witness: two deliveries of guard no-ops are finished, one stopped by
\* the missing active bot and one by the missing content, and the store is
\* what it was at the start.
C4_Witness ==
  \E r1 \in Reqs, r2 \in Reqs :
    /\ Done(r1) /\ StopsAtGuard(req[r1]) /\ req[r1].exit = "guard-bot"
    /\ Done(r2) /\ StopsAtGuard(req[r2]) /\ req[r2].exit = "guard-content"
    /\ convs \in InitialConversations /\ usage = [u \in UserIds |-> 0]

\* The in-memory conversation of handler q ends with a bot message of
\* this content.
LastIsBotMessage(q, content) ==
  LET ms == q.conversation.messages
  IN /\ Len(ms) >= 2
     /\ ms[Len(ms)].sender = "bot" /\ ms[Len(ms)].content = content
     /\ ms[Len(ms) - 1].sender = "customer"

\* C5: when the completion service fails (a thrown HTTP error or timeout, a
\* response without data or text, a text that is no string), processMessage
\* resolves to one of the four fallback phrases; the handler appends a bot
\* message with that phrase, calls the gateway send with it, and the
\* request is answered 200.
C5_CompletionFailureGivesFallback ==
  /\ \A resp \in CompletionResponses, i \in DOMAIN fallbackResponses :
       CompletionFailed(resp) => processMessage(resp, i) \in FallbackSet
  /\ \A r \in Reqs :
       req[r].completionFailed =>
         /\ req[r].aiResponse \in FallbackSet
         /\ LastIsBotMessage(req[r], req[r].aiResponse)
         /\ Len(req[r].sends) = 1
         /\ req[r].sends[1].text = req[r].aiResponse
         /\ req[r].pc \in {"send", "usage", "save", "done"}
         /\ Done(r) => req[r].response = 200

\* C5 witness: a handler whose completion call failed is finished, has
\* sent a fallback phrase and saved the conversation.
C5_Witness ==
  \E r \in Reqs :
    /\ Done(r) /\ req[r].completionFailed /\ req[r].exit = "completed"
    /\ req[r].sends[1].text \in FallbackSet

\* A stored Conversation of the bot and customer of request r holds the
\* k-th message of r's turn, with this sender and content.
Stored(r, k, sender, content) ==
  \E i \in DOMAIN convs :
    /\ convs[i].botId = req[r].botId
    /\ convs[i].customerPhone = req[r].customerPhone
    /\ \E n \in DOMAIN convs[i].messages :
         /\ convs[i].messages[n].id = <<r, k>>
         /\ convs[i].messages[n].sender = sender
         /\ convs[i].messages[n].content = content

RECURSIVE AddedBy(_, _)
AddedBy(u, n) ==
  IF n = 0 THEN 0
  ELSE AddedBy(u, n - 1)
       + (IF req[n].botId # "" /\ bots[req[n].botId].userId = u
            THEN req[n].usageAdded ELSE 0)

Last(s) == s[Len(s)]

\* C7: a failed gateway send does not stop the turn.  After sendMessage
\* returned false the handler goes on to the usage update and the save;
\* only a store error ends it early.  When the store does not fail, the
\* counter has been incremented by 2 and the Conversation has been saved
\* with the customer message and the bot message of the turn.
C7_FailedSendDoesNotStopTurn ==
  /\ \A u \in UserIds : usage[u] = AddedBy(u, MaxRequests)
  /\ \A r \in Reqs :
       req[r].sendResult = "false" =>
         /\ req[r].pc \in {"usage", "save", "done"}
         /\ Done(r) => req[r].exit \in {"completed", "caught"}
         /\ (Done(r) /\ req[r].exit = "caught") =>
               Last(req[r].trace) \in {"User.findByIdAndUpdate", "save"}
         /\ Last(req[r].trace) = "save" => req[r].usageAdded = 2
         /\ (Done(r) /\ req[r].caught = 0) =>
               /\ req[r].usageAdded = 2
               /\ req[r].saves = 1
               /\ Stored(r, 1, "customer", req[r].messageContent)
               /\ Stored(r, 2, "bot", req[r].aiResponse)

\* C7 witness: a turn whose send failed is finished, counted and saved.
C7_Witness ==
  \E r \in Reqs :
    /\ Done(r) /\ req[r].sendResult = "false" /\ req[r].caught = 0
    /\ req[r].usageAdded = 2 /\ usage[bots[req[r].botId].userId] >= 2
    /\ Stored(r, 1, "customer", req[r].messageContent)
    /\ Stored(r, 2, "bot", req[r].aiResponse)

\* C8 (as claimed): a finished handler of an event that passes the guards,
\* with no store error on its way, has added exactly 2 to the usage
\* counter, and one of an event that stops at a guard has added 0.
C8_UsageIncrementedByTwo ==
  \A r \in Reqs :
    /\ (Done(r) /\ PassesGuards(req[r]) /\ req[r].caught = 0)
          => req[r].usageAdded = 2
    /\ (Done(r) /\ StopsAtGuard(req[r])) => req[r].usageAdded = 0

\* C9: at most one gateway send is made per webhook event; a failed send is
\* not retried, and an event that is no message event passing the guards
\* makes none.
C9_AtMostOneSend ==
  \A r \in Reqs :
    /\ Len(req[r].sends) <= 1
    /\ (Started(r) /\ ~PassesGuards(req[r])) => req[r].sends = <<>>
    /\ req[r].sendResult # "none" => Len(req[r].sends) = 1

\* C9 witness: a finished handler whose one send failed.
C9_Witness ==
  \E r \in Reqs :
    Done(r) /\ req[r].sendResult = "false" /\ Len(req[r].sends) = 1

\* The position of an effect in a trace (0: not in it).
Pos(trace, label) ==
  IF \E n \in DOMAIN trace : trace[n] = label
    THEN CHOOSE n \in DOMAIN trace : trace[n] = label
    ELSE 0

\* The effects of a turn in the order of the claim, the save last.
SaveIsLastEffect(trace) ==
  /\ Last(trace) = "save"
  /\ \A n \in DOMAIN trace : trace[n] = "save" => n = Len(trace)
  /\ 0 < Pos(trace, "push customer")
  /\ Pos(trace, "push customer") < Pos(trace, "lastMessageAt")
  /\ Pos(trace, "lastMessageAt") < Pos(trace, "processMessage")
  /\ Pos(trace, "push bot") # 0 =>
       /\ Pos(trace, "processMessage") < Pos(trace, "push bot")
       /\ Pos(trace, "push bot") < Pos(trace, "sendMessage")
       /\ Pos(trace, "sendMessage") < Pos(trace, "User.findByIdAndUpdate")
       /\ Pos(trace, "User.findByIdAndUpdate") < Len(trace)

\* C10: the Conversation is written at most once per event and the write
\* is the last effect of the turn.  A step changes the stored
\* Conversations only when it is the return of a handler's save, that
\* handler has not saved before, all the other effects of its turn precede
\* the save, and the handler is finished by it; a handler that has saved
\* takes no further step.
C10_SingleSaveIsLast ==
  [][ \A r \in Reqs :
        Steps(r) =>
          /\ req[r].saves = 0
          /\ req'[r].saves <= 1
          /\ (convs' # convs \/ req'[r].saves = 1) =>
               /\ req[r].pc = "save" /\ req'[r].pc = "done"
               /\ req'[r].saves = 1
               /\ convs' = SaveConversation(convs, req[r]) /\ convs' # convs
               /\ SaveIsLastEffect(req[r].trace) ]_vars

\* C10 witness: a finished turn that replied, counted and saved once.
C10_Witness ==
  \E r \in Reqs :
    /\ Done(r) /\ req[r].saves = 1 /\ req[r].usageAdded = 2
    /\ Len(req[r].sends) = 1
    /\ Stored(r, 1, "customer", req[r].messageContent)

\* A message of the turn of request r is in the stored Conversations cs.
TurnStoredIn(cs, r) ==
  \E i \in DOMAIN cs : \E n \in DOMAIN cs[i].messages :
    cs[i].messages[n].id \in {<<r, 1>>, <<r, 2>>}

\* C11: a handler that fails before its save leaves the stored
\* Conversations as they were.  Every step of a handler that has not
\* completed its save (a lookup, the completion call, the gateway send, the
\* usage update, or the catch of an exception raised by one of them or by
\* the save) leaves every stored Conversation unchanged, and neither the
\* customer message nor the bot message of its turn is stored.
C11_FailureBeforeSaveStoresNothing ==
  [][ \A r \in Reqs :
        (Steps(r) /\ req'[r].saves = 0) =>
           /\ convs' = convs
           /\ ~TurnStoredIn(convs', r) ]_vars

\* C11 witness: the usage update raised after the reply was sent; the
\* handler is finished and the stored Conversations are the initial ones.
C11_Witness ==
  \E r \in Reqs :
    /\ Done(r) /\ req[r].exit = "caught"
    /\ Len(req[r].sends) = 1 /\ Len(req[r].conversation.messages) >= 2
    /\ Last(req[r].trace) = "User.findByIdAndUpdate"
    /\ req[r].saves = 0
    /\ convs \in InitialConversations /\ ~TurnStoredIn(convs, r)

\* The conversation lookup of handler r returned and the turn went on.
LookedUp(r) == req[r].completions # <<>>

\* The stored Conversation at position i holds the customer message of
\* the turn of request r.
HoldsTurn(i, r) ==
  /\ i \in DOMAIN convs
  /\ \E n \in DOMAIN convs[i].messages : convs[i].messages[n].id = <<r, 1>>

\* C12: when the messages are handled one after another, a message of a
\* customer whose earlier message to the same bot was saved is put into the
\* Conversation that holds the earlier one: its lookup finds that
\* Conversation, which is active, and it creates none.  A handler creates a
\* Conversation only when the store has no active one of its bot and
\* customer, so at most one active Conversation exists for each pair.
C12_SecondMessageJoinsConversation ==
  /\ \A r1 \in Reqs, r2 \in Reqs :
       ( /\ r1 < r2 /\ req[r1].saves = 1 /\ LookedUp(r2)
         /\ req[r1].botId = req[r2].botId
         /\ req[r1].customerPhone = req[r2].customerPhone ) =>
           /\ req[r2].convId # 0
           /\ HoldsTurn(req[r2].convId, r1)
           /\ convs[req[r2].convId].status = "active"
           /\ req[r2].saves = 1 => HoldsTurn(req[r2].convId, r2)
  /\ \A r \in Reqs :
       (LookedUp(r) /\ req[r].convId = 0 /\ ~Done(r)) =>
          ActiveConversationsOf(req[r].botId, req[r].customerPhone) = {}
  /\ \A r \in Reqs :
       (LookedUp(r) /\ req[r].convId # 0) =>
          req[r].convId \in
            ActiveConversationsOf(req[r].botId, req[r].customerPhone)
  /\ \A i \in DOMAIN convs, j \in DOMAIN convs :
       ( /\ convs[i].status = "active" /\ convs[j].status = "active"
         /\ convs[i].botId = convs[j].botId
         /\ convs[i].customerPhone = convs[j].customerPhone ) => i = j

\* C12 witness: the first message created the customer's Conversation (only
\* a closed one existed), the second message is saved in the same one, and
\* the store holds the closed Conversation and that one.
C12_Witness ==
  \E r1 \in Reqs, r2 \in Reqs :
    /\ r1 < r2 /\ req[r1].saves = 1 /\ req[r2].saves = 1
    /\ req[r1].customerPhone = req[r2].customerPhone
    /\ req[r1].convId = 0 /\ req[r2].convId = 2
    /\ Len(convs) = 2
    /\ HoldsTurn(2, r1) /\ HoldsTurn(2, r2)

\* s is a beginning of t.
IsPrefix(s, t) == Len(s) <= Len(t) /\ SubSeq(t, 1, Len(s)) = s

\* In the message sequence ms every bot message of a turn comes after the
\* customer message of the same turn.
CustomerBeforeBot(ms) ==
  \A n \in DOMAIN ms :
    (ms[n].sender = "bot" /\ ms[n].id[1] > 0) =>
       \E m \in 1..(n - 1) :
         ms[m].sender = "customer" /\ ms[m].id = <<ms[n].id[1], 1>>

\* C13: the message sequence of a Conversation is append-only.  Every step
\* keeps every stored Conversation where it is, with the same bot, customer
\* and status, and keeps its messages as a beginning of the new sequence
\* (same content, sender and position); within a turn the customer message
\* comes before the bot message.
C13_MessagesAppendOnly ==
  [][ /\ Len(convs') >= Len(convs)
      /\ \A i \in DOMAIN convs :
           /\ IsPrefix(convs[i].messages, convs'[i].messages)
           /\ convs'[i].botId = convs[i].botId
           /\ convs'[i].customerPhone = convs[i].customerPhone
           /\ convs'[i].status = convs[i].status
      /\ \A i \in DOMAIN convs' : CustomerBeforeBot(convs'[i].messages) ]_vars

\* C13 witness: two turns were saved into the Conversation that was active
\* at the start; it holds its two old messages and the two turns.
C13_Witness ==
  \E i \in DOMAIN convs :
    /\ IsPrefix(ActiveConversation.messages, convs[i].messages)
    /\ \A r \in Reqs : req[r].saves = 1 /\ req[r].convId = i
                        /\ HoldsTurn(i, r) /\ Len(req[r].sends) = 1
    /\ Len(convs[i].messages) = Len(ActiveConversation.messages) + 2 * MaxRequests

\* The body of the request of handler q has no data field.
LacksData(q) == WebhookData(q).k = "absent"

\* C14: a request whose body has no data field is answered 400 by its
\* first step, which reads and writes nothing in the store; the handler has
\* made no store operation, no completion call and no gateway send, and
\* takes no further step.
C14_MissingDataIsRejected ==
  [][ \A r \in Reqs :
        (Steps(r) /\ LacksData(req'[r])) =>
           /\ req[r].pc = "idle" /\ req'[r].pc = "done"
           /\ req'[r].response = 400
           /\ req'[r].trace = <<>>
           /\ req'[r].completions = <<>> /\ req'[r].sends = <<>>
           /\ req'[r].usageAdded = 0 /\ req'[r].saves = 0
           /\ bots' = bots /\ convs' = convs /\ usage' = usage ]_vars

\* C14 witness: a request without a data field has been answered 400.
C14_Witness ==
  \E r \in Reqs :
    /\ Done(r) /\ LacksData(req[r])
    /\ req[r].response = 400 /\ req[r].trace = <<>>

\* The value of the data field of the request of handler q is falsy.
FalsyData(q) == WebhookData(q).k \in {"null", "emptystr", "zero", "false"}

\* The request of handler q went to the handler of its event tag.
Classified(q) ==
  CASE Event(q) = "messages.upsert" ->
         \/ q.exit \in {"guard-messages", "guard-fromMe", "guard-phone", "caught"}
         \/ (q.trace # <<>> /\ q.trace[1] = "Bot.findOne")
    [] Event(q) = "connection.update" -> q.trace = <<"Bot.findOneAndUpdate">>
    [] Event(q) = "qrcode.updated" ->
         q.exit = "no-qrcode" \/ q.trace = <<"Bot.findOneAndUpdate">>
    [] OTHER -> q.exit = "unhandled"

\* C15 (as claimed): a request is answered 400 only when its body has no
\* data field; a request with a data field, whatever its value, is
\* classified by its event tag.
C15_OnlyMissingDataIsRejected ==
  \A r \in Reqs :
    Started(r) =>
      /\ req[r].response = 400 => LacksData(req[r])
      /\ ~LacksData(req[r]) => Classified(req[r])

\* C15 (amended): a request is answered 400 exactly when its body has no
\* data field or a data field with a falsy value (null, an empty string, 0,
\* false), and then nothing else is done; every request whose data field is
\* truthy is classified by its event tag and never answered 400.
C15_FalsyDataIsRejected ==
  \A r \in Reqs :
    Started(r) =>
      /\ (LacksData(req[r]) \/ FalsyData(req[r])) =>
            /\ Done(r) /\ req[r].response = 400 /\ req[r].trace = <<>>
      /\ ~(LacksData(req[r]) \/ FalsyData(req[r])) =>
            /\ req[r].response # 400
            /\ Classified(req[r])

\* C15 witness: a request with data null was answered 400 and one with a
\* truthy data value that is no object was classified and answered 200.
C15_Witness ==
  \E r1 \in Reqs, r2 \in Reqs :
    /\ Done(r1) /\ WebhookData(req[r1]).k = "null" /\ req[r1].response = 400
    /\ Done(r2) /\ WebhookData(req[r2]).k = "truthy" /\ req[r2].response = 200
    /\ Classified(req[r2])

\* The first message of the request of handler q is a plain text message.
PlainText(q) == Truthy(FirstMessage(q).message.conversation)

\* The effects of the trace are there, in the order of C16.
RepliesInOrder(trace) ==
  /\ 0 < Pos(trace, "new Conversation")
  /\ Pos(trace, "new Conversation") < Pos(trace, "push customer")
  /\ Pos(trace, "push customer") < Pos(trace, "processMessage")
  /\ Pos(trace, "processMessage") < Pos(trace, "push bot")
  /\ Pos(trace, "push bot") < Pos(trace, "sendMessage")

\* C16 (as claimed): a finished handler of a plain text message for the
\* instance of an active bot, whose lookup found no active conversation and
\* which met no store error, has created a Conversation, appended the
\* customer message (type text, sender customer, the text, the gateway id),
\* called the completion service with the persona of the bot and the text,
\* appended the bot reply, called the gateway send with the customer phone
\* and the reply, in this order, and the request is answered 200.
C16_EffectsInOrder ==
  \A r \in Reqs :
    ( /\ Done(r) /\ PassesGuards(req[r]) /\ PlainText(req[r])
      /\ req[r].caught = 0 /\ req[r].convId = 0 ) =>
        LET q == req[r]
            text == FirstMessage(q).message.conversation.v
            ms == q.conversation.messages
        IN /\ RepliesInOrder(q.trace)
           /\ Len(ms) = 2
           /\ ms[1] = ConvMessage(<<r, 1>>, "text", text, "customer",
                                  FirstMessage(q).id)
           /\ q.completions =
                << [persona |-> bots[q.botId].persona, input |-> text] >>
           /\ ms[2].sender = "bot" /\ ms[2].content = q.aiResponse
           /\ Len(q.sends) = 1
           /\ q.sends[1].number = formatPhoneNumber(q.customerPhone)
           /\ q.sends[1].text = q.aiResponse
           /\ q.response = 200

\* The rules of the extraction in their order, for a message body m: when
\* each applies and what it gives.
ExtractionRules(m) ==
  << [applies |-> m.conversation.present /\ m.conversation.v # <<>>,
      result |-> m.conversation.v],
     [applies |-> m.extendedTextMessage.present /\ m.extendedTextMessage.v # <<>>,
      result |-> m.extendedTextMessage.v],
     [applies |-> /\ m.imageMessage.present /\ m.imageMessage.caption.present
                  /\ m.imageMessage.caption.v # <<>>,
      result |-> <<"[Image] ">> \o m.imageMessage.caption.v],
     [applies |-> /\ m.videoMessage.present /\ m.videoMessage.caption.present
                  /\ m.videoMessage.caption.v # <<>>,
      result |-> <<"[Video] ">> \o m.videoMessage.caption.v],
     [applies |-> /\ m.documentMessage.present /\ m.documentMessage.caption.present
                  /\ m.documentMessage.caption.v # <<>>,
      result |-> <<"[Document] ">> \o m.documentMessage.caption.v],
     [applies |-> m.audioMessage, result |-> <<"[Audio Message]">>],
     [applies |-> m.stickerMessage, result |-> <<"[Sticker]">>] >>

\* The rules that apply to body m.
Applying(m) == {k \in DOMAIN ExtractionRules(m) : ExtractionRules(m)[k].applies}

\* The call of extractMessageContent has returned.
Extracted == call.fn = "extractMessageContent" /\ call.returned

\* C17: extractMessageContent gives the result of the first rule that
\* applies, in the order conversation text, extended text, image caption,
\* video caption, document caption, audio, sticker (a text or a caption
\* applies when it is not empty), and no content when none applies or the
\* message has no body.  A body with only a sticker gives "[Sticker]".
C17_FirstMatchingRule ==
  Extracted =>
    LET message == call.input
        m == message.message
    IN /\ IF message.isNull \/ ~m.present \/ Applying(m) = {}
            THEN call.output = NoTxt
            ELSE call.output = Txt(ExtractionRules(m)[Min(Applying(m))].result)
       /\ (~message.isNull /\ m = StickerBody) =>
             call.output = Txt(<<"[Sticker]">>)

\* C17 witness: a body with a conversation text, an image caption, an audio
\* and a sticker gave the conversation text.
C17_Witness ==
  /\ Extracted
  /\ ~call.input.isNull
  /\ Applying(call.input.message) = {1, 3, 6, 7}
  /\ call.output = Txt(<<"Hi">>)

\* The handler of each request of the model whose first message has the
\* body of this message stops at the content guard when its lookup
\* returns: it is answered 200 and has called neither the completion
\* service nor the gateway.
GuardsOnNoContent(message) ==
  \A p \in DOMAIN AllRequests :
    LET d == AllRequests[p].data
        q == [IdleRequest EXCEPT !.request = p, !.pc = "findConv",
                                 !.botId = "b1", !.customerPhone = Phone1]
        after == AfterFindConversation(q, 0, 1)
    IN ( /\ AllRequests[p].event = "messages.upsert" /\ d.k = "object"
         /\ d.messages.present /\ Len(d.messages.items) > 0
         /\ ~d.messages.items[1].isNull
         /\ d.messages.items[1].message = message.message ) =>
           /\ after.pc = "done" /\ after.exit = "guard-content"
           /\ after.response = 200
           /\ after.completions = <<>> /\ after.sends = <<>>
           /\ after.saves = 0 /\ after.usageAdded = 0

\* C18: extractMessageContent is total and has no effect.  For every
\* message (also one without a body, with media without a caption, with
\* none of the fields, and null) the call returns; it returns no content or
\* a string that is not empty, never an exception; the step changes nothing
\* but the returned value; and a handler whose message has no content stops
\* at the guard.
C18_ExtractIsTotalAndPure ==
  [][ call' # call =>
        /\ call.fn = "extractMessageContent" /\ ~call.returned
        /\ call'.returned /\ call'.input = call.input
        /\ \/ call'.output = NoTxt
           \/ call'.output = Txt(call'.output.v) /\ call'.output.v # <<>>
        /\ bots' = bots /\ convs' = convs /\ usage' = usage /\ req' = req
        /\ (call'.output = NoTxt /\ ~call.input.isNull) =>
              GuardsOnNoContent(call.input) ]_vars

\* C18 witness: the call for an image without a caption returned no
\* content, and so did the step of the handler of the request with that
\* image.
C18_Witness ==
  /\ Extracted
  /\ call.input.message = ImageBody(NoTxt)
  /\ call.output = NoTxt
  /\ \E p \in DOMAIN AllRequests :
       AllRequests[p] = Request("i1", "messages.upsert",
                                MessageData(<<NoCaptionMessage>>))

\* The status for each state of the gateway that has one of its own.
StatusOfState ==
  [s \in {"open", "connecting", "close", "closed"} |->
     IF s = "open" THEN "connected"
     ELSE IF s = "connecting" THEN "connecting" ELSE "inactive"]

BotStatuses == {"inactive", "connecting", "connected", "error"}

\* This step is the return of the update of the connection.update handler
\* r, and the update was applied.
ConnectionUpdated(r) ==
  /\ req[r].pc = "connectionUpdate"
  /\ req'[r].pc = "done" /\ req'[r].exit = "completed"

\* C19: when the update of a connection.update event is applied, the
\* status of the bot bound to the instance is given by the state alone:
\* connected for open, connecting for connecting, inactive for close and
\* closed, error for every other state and for a missing one, whatever the
\* status was; and the status of every bot is always one of inactive,
\* connecting, connected, error.
C19_StatusFollowsState ==
  [][ /\ \A r \in Reqs :
           ConnectionUpdated(r) =>
             LET state == WebhookData(req[r]).state
             IN \A b \in BotIds :
                  bots[b].instanceId = InstanceId(req[r]) =>
                    bots'[b].status =
                      IF state \in DOMAIN StatusOfState
                        THEN StatusOfState[state] ELSE "error"
      /\ \A b \in BotIds : bots'[b].status \in BotStatuses ]_vars

\* C19 witness: a connection.update without a state was applied to the
\* bot of instance i1, whose status is error.
C19_Witness ==
  \E r \in Reqs :
    /\ Done(r) /\ req[r].exit = "completed"
    /\ Event(req[r]) = "connection.update" /\ InstanceId(req[r]) = "i1"
    /\ WebhookData(req[r]).state = "undefined"
    /\ bots["b1"].status = "error"

\* C20: a connection.update clears the stored QR code of the bot bound to
\* the instance exactly when the state is open and leaves it as it is for
\* every other state; it changes no other field but the status, changes no
\* other bot, and changes nothing when the update is not applied.
C20_QRCodeClearedOnlyOnOpen ==
  [][ \A r \in Reqs :
        (Steps(r) /\ Event(req'[r]) = "connection.update") =>
           IF ConnectionUpdated(r)
             THEN \A b \in BotIds :
                    IF bots[b].instanceId = InstanceId(req[r])
                      THEN /\ bots'[b].qrCode =
                                IF WebhookData(req[r]).state = "open"
                                  THEN NoTxt ELSE bots[b].qrCode
                           /\ [bots'[b] EXCEPT !.status = bots[b].status,
                                               !.qrCode = bots[b].qrCode] = bots[b]
                      ELSE bots'[b] = bots[b]
             ELSE bots' = bots ]_vars

\* C20 witness: a QR code was stored, then a connection.update with the
\* state close was applied: the bot is inactive and still has the QR code.
C20_Witness ==
  \E r \in Reqs :
    /\ Done(r) /\ req[r].exit = "completed"
    /\ Event(req[r]) = "connection.update" /\ InstanceId(req[r]) = "i1"
    /\ WebhookData(req[r]).state = "close"
    /\ bots["b1"].status = "inactive"
    /\ bots["b1"].qrCode = Txt(<<"QR1">>)

\* This step is the return of the update of the qrcode.updated handler r,
\* and the update was applied.
QRCodeUpdated(r) ==
  /\ req[r].pc = "qrUpdate"
  /\ req'[r].pc = "done" /\ req'[r].exit = "completed"

\* C21: when the update of a qrcode.updated event with a QR payload is
\* applied, the bot bound to the instance has that payload as its QR code
\* and the status connecting, whatever its status was, and nothing else of
\* it is changed; an event without a QR payload is answered 200 by its
\* first step, makes no store operation and changes nothing.
C21_QRCodeStoredAndConnecting ==
  [][ \A r \in Reqs :
        (Steps(r) /\ HasDataObject(req'[r])
                  /\ Event(req'[r]) = "qrcode.updated") =>
           LET qrcode == WebhookData(req'[r]).qrcode
           IN IF qrcode.present /\ qrcode.v # <<>>
                THEN /\ req'[r].exit # "no-qrcode"
                     /\ IF QRCodeUpdated(r)
                          THEN \A b \in BotIds :
                                 IF bots[b].instanceId = InstanceId(req[r])
                                   THEN /\ bots'[b].qrCode = qrcode
                                        /\ bots'[b].status = "connecting"
                                        /\ [bots'[b] EXCEPT
                                              !.status = bots[b].status,
                                              !.qrCode = bots[b].qrCode] = bots[b]
                                   ELSE bots'[b] = bots[b]
                          ELSE bots' = bots
                ELSE /\ req[r].pc = "idle" /\ req'[r].pc = "done"
                     /\ req'[r].exit = "no-qrcode" /\ req'[r].response = 200
                     /\ req'[r].trace = <<>>
                     /\ bots' = bots /\ convs' = convs /\ usage' = usage ]_vars

\* C21 witness: the bot of instance i1 was connected by a connection.update
\* open, then a qrcode.updated with a payload was applied: the bot is
\* connecting and has the payload.
C21_Witness ==
  \E r1 \in Reqs, r2 \in Reqs :
    /\ Done(r1) /\ req[r1].exit = "completed"
    /\ Event(req[r1]) = "connection.update" /\ InstanceId(req[r1]) = "i1"
    /\ WebhookData(req[r1]).state = "open"
    /\ Done(r2) /\ req[r2].exit = "completed"
    /\ Event(req[r2]) = "qrcode.updated" /\ InstanceId(req[r2]) = "i1"
    /\ bots["b1"].status = "connecting"
    /\ bots["b1"].qrCode = Txt(<<"QR1">>)

\* The request of handler q is a status event with a data object.
StatusEvent(q) ==
  HasDataObject(q) /\ Event(q) \in {"connection.update", "qrcode.updated"}

\* A bot is bound to the instance.
Bound(instanceId) == \E b \in BotIds : bots[b].instanceId = instanceId

\* C22: a connection.update or qrcode.updated event for an instance that no
\* bot is bound to changes no bot and creates none, and is answered 200; a
\* status event for one instance never changes a bot bound to another
\* instance.
C22_UnboundInstanceChangesNoBot ==
  [][ \A r \in Reqs :
        (Steps(r) /\ StatusEvent(req'[r])) =>
           /\ DOMAIN bots' = DOMAIN bots
           /\ \A b \in DOMAIN bots :
                bots[b].instanceId # InstanceId(req'[r]) => bots'[b] = bots[b]
           /\ ~Bound(InstanceId(req'[r])) =>
                 /\ bots' = bots
                 /\ req'[r].pc = "done" => req'[r].response = 200
           /\ convs' = convs /\ usage' = usage ]_vars

\* C22 witness: a connection.update and a qrcode.updated for instance i3,
\* which no bot is bound to, were applied and answered 200; the bots are as
\* they were at the start.
C22_Witness ==
  \E r1 \in Reqs, r2 \in Reqs :
    /\ Done(r1) /\ Event(req[r1]) = "connection.update"
    /\ Done(r2) /\ Event(req[r2]) = "qrcode.updated"
    /\ \A r \in {r1, r2} :
         /\ InstanceId(req[r]) = "i3" /\ HasDataObject(req[r])
         /\ req[r].exit = "completed" /\ req[r].response = 200
    /\ bots = InitialBots

\* The event tag of the request of handler q is none of the three handled
\* ones ("undefined": the body has no event field).
UnknownTag(q) ==
  Event(q) \notin {"messages.upsert", "connection.update", "qrcode.updated"}

\* C23: a request with a data value that is accepted and an event tag that
\* is none of messages.upsert, connection.update, qrcode.updated (also a
\* missing tag) is answered 200 by its first step; it makes no store read
\* or write, no completion call and no gateway send, and the store is left
\* as it is.
C23_UnknownTagIsAcknowledged ==
  [][ \A r \in Reqs :
        ( /\ Steps(r) /\ UnknownTag(req'[r])
          /\ ~LacksData(req'[r]) /\ ~FalsyData(req'[r]) ) =>
           /\ req[r].pc = "idle" /\ req'[r].pc = "done"
           /\ req'[r].response = 200
           /\ req'[r].trace = <<>>
           /\ req'[r].completions = <<>> /\ req'[r].sends = <<>>
           /\ req'[r].usageAdded = 0 /\ req'[r].saves = 0
           /\ bots' = bots /\ convs' = convs /\ usage' = usage ]_vars

\* C23 witness: a request without an event tag and one with the tag
\* messages.update, which carries a customer message, were answered 200
\* without any effect.
C23_Witness ==
  \E r1 \in Reqs, r2 \in Reqs :
    /\ Done(r1) /\ Event(req[r1]) = "undefined"
    /\ Done(r2) /\ Event(req[r2]) = "messages.update"
    /\ \A r \in {r1, r2} :
         /\ HasDataObject(req[r]) /\ req[r].response = 200
         /\ req[r].trace = <<>>
    /\ bots = InitialBots /\ convs \in InitialConversations

\* s holds digits only.
DigitsOnly(s) == \A k \in DOMAIN s : s[k] \in Digits

\* C24 (as claimed): the customerPhone of every stored Conversation holds
\* digits only, whatever the domain suffix of the remoteJid it was derived
\* from.
C24_CustomerPhoneIsDigitsOnly ==
  \A i \in DOMAIN convs : DigitsOnly(convs[i].customerPhone)

\* The messages of the turn of request r in the message sequence ms.
TurnMessages(ms, r) == {n \in DOMAIN ms : ms[n].id[1] = r}

\* C29: only the first element of data.messages is processed.  A handler
\* appends at most one customer message, the one of the first element,
\* and at most one bot message, stores no more than these, and makes at
\* most one send, to the sender of the first element; when the first
\* element is self-authored the request is answered by its first step
\* without any effect, whatever follows it in the array.
C29_OnlyFirstMessageProcessed ==
  \A r \in Reqs :
    Started(r) =>
      LET q == req[r]
          ms == q.conversation.messages
          first == FirstMessage(q)
      IN /\ \A n \in TurnMessages(ms, r) :
              \/ /\ ms[n].id = <<r, 1>> /\ ms[n].sender = "customer"
                 /\ ms[n].messageId = first.id
                 /\ Txt(ms[n].content) = extractMessageContent(first)
              \/ ms[n].id = <<r, 2>> /\ ms[n].sender = "bot"
         /\ Cardinality(TurnMessages(ms, r)) <= 2
         /\ \A i \in DOMAIN convs :
              Cardinality(TurnMessages(convs[i].messages, r)) <= 2
         /\ Len(q.sends) <= 1 /\ Len(q.completions) <= 1
         /\ q.customerPhone # <<>> =>
               q.customerPhone = RemoveFirst(first.remoteJid.v, WaSuffix)
         /\ first.fromMe =>
               /\ Done(r) /\ q.exit = "guard-fromMe" /\ q.response = 200
               /\ q.trace = <<>> /\ ms = <<>>
               /\ q.sends = <<>> /\ q.completions = <<>>

\* C29 witness: a payload with the messages of two customers was handled
\* and saved with the turn of the first one only, and a payload with an
\* echo before a customer message was dropped.
C29_Witness ==
  \E r1 \in Reqs, r2 \in Reqs :
    /\ Done(r1) /\ req[r1].saves = 1 /\ Len(req[r1].sends) = 1
    /\ WebhookData(req[r1]).messages.items = <<TextMessage, OtherPhoneMessage>>
    /\ req[r1].customerPhone = Phone1
    /\ \E i \in DOMAIN convs :
         Cardinality(TurnMessages(convs[i].messages, r1)) = 2
    /\ Done(r2) /\ req[r2].exit = "guard-fromMe"
    /\ WebhookData(req[r2]).messages.items = <<EchoMessage, OtherPhoneMessage>>

\* The call of formatPhoneNumber has returned.
Formatted == call.fn = "formatPhoneNumber" /\ call.returned

\* The number of digits in s.
DigitCount(s) == Cardinality({k \in DOMAIN s : s[k] \in Digits})

\* C25: the number formatPhoneNumber gives, which sendMessage passes to
\* the gateway, holds digits only, and it begins with 55 whenever the input
\* has fewer than 13 digits.
C25_NumberIsNormalized ==
  Formatted =>
    /\ DigitsOnly(call.output)
    /\ DigitCount(call.input) < 13 => StartsWith(call.output, <<"5", "5">>)

\* C25 witness: "(11) 999999999" gave "5511999999999".
C25_Witness ==
  /\ Formatted
  /\ call.input = <<"(", "1", "1", ")", " ">> \o Filler(9)
  /\ call.output = <<"5", "5", "1", "1">> \o Filler(9)

\* The messages handler r appended to its in-memory Conversation.
OwnMessages(r) ==
  {req[r].conversation.messages[n] :
     n \in TurnMessages(req[r].conversation.messages, r)}

\* The messages of the stored Conversation at position i.
StoredMessages(i) == {convs[i].messages[n] : n \in DOMAIN convs[i].messages}

\* C26: no turn is lost on an existing Conversation.  Once a handler that
\* loaded a stored Conversation has saved, that Conversation holds every
\* message the handler appended, also when another handler loaded the same
\* Conversation before that save and saved its own turn before or after
\* it; it still begins with the messages it had when it was loaded.
C26_NoTurnLost ==
  \A r \in Reqs :
    (req[r].saves = 1 /\ req[r].convId # 0) =>
       LET i == req[r].convId
       IN /\ OwnMessages(r) \subseteq StoredMessages(i)
          /\ \E m \in OwnMessages(r) : m.sender = "customer"
          /\ IsPrefix(SubSeq(req[r].conversation.messages, 1, req[r].loaded),
                      convs[i].messages)

\* C26 witness: two handlers loaded the same active Conversation with the
\* same two messages, each appended a customer and a bot message and
\* saved; the stored Conversation holds its two old messages and both
\* turns.
C26_Witness ==
  \E r1 \in Reqs, r2 \in Reqs :
    /\ r1 # r2
    /\ req[r1].saves = 1 /\ req[r2].saves = 1
    /\ req[r1].convId # 0 /\ req[r2].convId = req[r1].convId
    /\ req[r1].loaded = req[r2].loaded
    /\ Cardinality(OwnMessages(r1)) = 2 /\ Cardinality(OwnMessages(r2)) = 2
    /\ (OwnMessages(r1) \cup OwnMessages(r2)) \subseteq StoredMessages(req[r1].convId)
    /\ Len(convs[req[r1].convId].messages) = req[r1].loaded + 4

\* processMessage of handler r has resolved to the empty string.
EmptyReply(r) ==
  /\ Pos(req[r].trace, "processMessage") > 0
  /\ req[r].pc # "complete"
  /\ req[r].aiResponse = <<>>

\* C27: an empty reply.  When processMessage resolved to the empty string
\* (the service answered a text of white space only), the handler appends
\* no bot message, makes no gateway send and adds nothing to the usage
\* counter; its next step is the save, and it finishes only after that
\* save, which stores the customer message and no bot message unless the
\* store raises.
C27_EmptyReplyStillSaves ==
  \A r \in Reqs :
    EmptyReply(r) =>
      LET q == req[r]
      IN /\ \A n \in TurnMessages(q.conversation.messages, r) :
              q.conversation.messages[n].sender = "customer"
         /\ q.sends = <<>>
         /\ q.sendResult = "none"
         /\ q.usageAdded = 0
         /\ ~q.completionFailed
         /\ Last(q.trace) = "save"
         /\ Pos(q.trace, "push bot") = 0
         /\ Pos(q.trace, "User.findByIdAndUpdate") = 0
         /\ q.pc \in {"save", "done"}
         /\ Done(r) => (q.saves = 1 /\ q.caught = 0) \/ (q.saves = 0 /\ q.caught = 1)
         /\ q.saves = 1 =>
              /\ Stored(r, 1, "customer", q.messageContent)
              /\ \A i \in DOMAIN convs : \A n \in DOMAIN convs[i].messages :
                   convs[i].messages[n].id # <<r, 2>>

\* C27 witness: a handler got the empty reply and has finished with its
\* save; the customer message is stored and the usage counter is still 0.
C27_Witness ==
  \E r \in Reqs :
    /\ EmptyReply(r) /\ Done(r)
    /\ req[r].saves = 1
    /\ Stored(r, 1, "customer", req[r].messageContent)
    /\ req[r].sends = <<>>
    /\ \A u \in UserIds : usage[u] = 0

\* The number of messages the webhook handlers have persisted in the
\* Conversations of user u (the messages of the initial store are not
\* counted).
PersistedBy(u) ==
  Cardinality(UNION { { <<i, n>> : n \in TurnMessages(convs[i].messages, r) } :
                        i \in {j \in DOMAIN convs : convs[j].userId = u},
                        r \in Reqs })

\* C28 (as claimed): whenever no handler is running, what the handlers
\* have added to a user's usage counter is the number of messages they
\* have persisted in that user's Conversations.
C28_UsageAgreesWithLog ==
  (\A r \in Reqs : req[r].pc \in {"idle", "done"}) =>
     \A u \in UserIds : usage[u] = PersistedBy(u)

\* Bots are bound to the instance and none of them is active.
SoftDeleted(instanceId) ==
  /\ Bound(instanceId)
  /\ \A b \in BotIds : bots[b].instanceId = instanceId => ~bots[b].isActive

\* C30: isActive gates the message path only.  Every step of the handler
\* of a messages.upsert for an instance whose bot has isActive = false
\* leaves bots, conversations and usage as they are, and the handler calls
\* neither the completion service nor the gateway and is answered 200;
\* an applied connection.update or qrcode.updated for that instance sets the
\* status (and the QR code) of that bot as for an active one, and leaves
\* isActive false.
C30_ActivityGatesMessagesOnly ==
  [][ \A r \in Reqs :
        (Steps(r) /\ HasDataObject(req'[r])
                  /\ SoftDeleted(InstanceId(req'[r]))) =>
           LET q == req'[r]
               inst == InstanceId(q)
           IN /\ Event(q) = "messages.upsert" =>
                   /\ bots' = bots /\ convs' = convs /\ usage' = usage
                   /\ q.completions = <<>> /\ q.sends = <<>>
                   /\ q.usageAdded = 0 /\ q.saves = 0
                   /\ q.pc \in {"findBot", "done"}
                   /\ q.pc = "done" => /\ q.response = 200
                                       /\ q.exit \in {"guard-bot", "caught"}
              /\ ConnectionUpdated(r) =>
                   \A b \in BotIds :
                     bots[b].instanceId = inst =>
                       /\ bots'[b].status =
                            mapConnectionStateToStatus(WebhookData(q).state)
                       /\ bots'[b].qrCode =
                            IF WebhookData(q).state = "open"
                              THEN NoTxt ELSE bots[b].qrCode
                       /\ ~bots'[b].isActive
              /\ QRCodeUpdated(r) =>
                   \A b \in BotIds :
                     bots[b].instanceId = inst =>
                       /\ bots'[b].status = "connecting"
                       /\ bots'[b].qrCode = WebhookData(q).qrcode
                       /\ ~bots'[b].isActive ]_vars

\* C30 witness: a messages.upsert for instance i2, whose bot b2 is not
\* active, was answered at the bot lookup without any effect, and a
\* qrcode.updated for i2 was applied: b2, still not active, is connecting
\* and has the QR code.
C30_Witness ==
  \E r1 \in Reqs, r2 \in Reqs :
    /\ Done(r1) /\ Event(req[r1]) = "messages.upsert"
    /\ InstanceId(req[r1]) = "i2" /\ req[r1].exit = "guard-bot"
    /\ req[r1].response = 200
    /\ Done(r2) /\ Event(req[r2]) = "qrcode.updated"
    /\ InstanceId(req[r2]) = "i2" /\ req[r2].exit = "completed"
    /\ ~bots["b2"].isActive
    /\ bots["b2"].status = "connecting"
    /\ bots["b2"].qrCode = Txt(<<"QR2">>)
    /\ convs \in InitialConversations

\* C31 (as claimed): formatPhoneNumber is idempotent.  Applied to the
\* number it has returned, it returns that number unchanged.
C31_FormatIsIdempotent ==
  Formatted => formatPhoneNumber(call.output) = call.output

====
